---- MODULE Spec2Model ----
(***************************************************************************)
(* Model of trajectory_rs/src/lib.rs: the RK4 airborne trajectory driver   *)
(* with wind shear and table-driven drag/Magnus forces, and the ground-    *)
(* ball rolling / fielder-interception model.                              *)
(*                                                                         *)
(* f64 quantities are modelled in fixed point.  Every arithmetic result is *)
(* rounded to the nearest point of its grid (RoundDiv), as IEEE-754 rounds *)
(* every result to the nearest double; the grids are                       *)
(*   airborne:  length cm, velocity cm/s, time ms, force dyn (g cm/s^2),   *)
(*              coefficients 1/100, wind multiplier 1/20, fraction 1/1000 *)
(*   ground:    length 1/10 ft, speed 1/1000 ft/s and 1/1000 mph, time ms, *)
(*              unit vectors 1/1000.                                       *)
(* A threshold smaller than one grid unit (1e-6, 1e-10) is the grid's 0.   *)
(*                                                                         *)
(* One behaviour exercises one entry point (op); the other components stay *)
(* idle.                                                                   *)
(***************************************************************************)
EXTENDS Integers, Sequences, FiniteSets, TLC

VARIABLES
    op,      \* the entry point this behaviour exercises
    shear,   \* apply_wind_shear: base wind and the last two calls
    lut,     \* lookup_cd_cl: the tables passed and the last call
    flight,  \* integrate_single_trajectory[_with_wind]: inputs and both drivers
    roll,    \* ball_position_at_time: the ground ball and the last two queries
    search   \* find_fielder_interception: inputs, loop state and outcome;
             \* find_best_interception: inputs, results, selection state

vars == <<op, shear, lut, flight, roll, search>>

Idle == [idle |-> TRUE]

-----------------------------------------------------------------------------
(* Fixed-point arithmetic                                                  *)

Abs(a) == IF a < 0 THEN -a ELSE a
Min(a, b) == IF a <= b THEN a ELSE b
Max(a, b) == IF a >= b THEN a ELSE b
\* f64::clamp(lo, hi)
Clamp(x, lo, hi) == IF x < lo THEN lo ELSE IF x > hi THEN hi ELSE x

\* a / b rounded to the nearest grid point (ties upward), b # 0
RoundDiv(a, b) ==
    IF b > 0 THEN (a + b \div 2) \div b
             ELSE ((-a) + (-b) \div 2) \div (-b)

\* a / b truncated toward zero: the `as usize` cast of a non-negative quotient,
\* saturating at 0 for a negative one
TruncDivUsize(a, b) == IF a < 0 THEN 0 ELSE a \div b

\* F applied to the value of e: e is evaluated once, however often F uses it
Bind(e, F(_)) == CHOOSE r \in { F(v) : v \in {e} } : TRUE

RECURSIVE IsqrtIter(_, _)
IsqrtIter(n, x) ==
    Bind((x + n \div x) \div 2,
         LAMBDA y : IF y >= x THEN x ELSE IsqrtIter(n, y))

\* f64::sqrt on the grid: the integer square root, rounded to nearest
IsqrtFloor(n) == IF n < 2 THEN n ELSE IsqrtIter(n, n)
SqrtOfValue(n) ==
    Bind(IsqrtFloor(n), LAMBDA r : IF n - r * r > r THEN r + 1 ELSE r)
Sqrt(n) == Bind(n, SqrtOfValue)

-----------------------------------------------------------------------------
(* Units                                                                   *)

LenDen == 100        \* cm per m (also cm/s per m/s)
TimeDen == 1000      \* ms per s
MultDen == 20        \* wind multiplier grid
CoefDen == 100       \* Cd, Cl grid
FracDen == 1000      \* interpolation fraction grid

-----------------------------------------------------------------------------
(* Physical constants (lib.rs 14-25)                                       *)

GRAVITY == 981                      \* 9.81 m/s^2 in cm/s^2
BALL_MASS == 145                    \* 0.145 kg in g
WIND_REF_HEIGHT_M == 10 * LenDen
WIND_SHEAR_EXPONENT_INV == 5        \* exponent 0.20 = 1/5
MIN_HEIGHT_M == 1 * LenDen
MAX_WIND_MULTIPLIER == 34           \* 1.7 on the 1/20 grid
MIN_WIND_MULTIPLIER == 1 * MultDen  \* the literal 1.0 of clamp(1.0, MAX)

-----------------------------------------------------------------------------
(* Wind shear model (lib.rs 30-45)                                         *)

Pow5(m) == m * m * m * m * m

\* (h / WIND_REF_HEIGHT_M).powf(0.20) on the 1/20 grid: the largest m with
\* (m/20)^5 <= h/ref, saturating above the cap
ShearRootCap == MAX_WIND_MULTIPLIER + 1
ShearPow(h) ==
    Bind(h * (Pow5(MultDen) \div WIND_REF_HEIGHT_M),
         LAMBDA x : CHOOSE m \in 0..ShearRootCap :
                       /\ Pow5(m) <= x
                       /\ m < ShearRootCap => Pow5(m + 1) > x)

\* the local `multiplier` without the clamp to [1.0, MAX_WIND_MULTIPLIER]
wind_multiplier_unclamped(height_m) ==
    LET h == Max(height_m, MIN_HEIGHT_M)
    IN  Min(ShearPow(h), MAX_WIND_MULTIPLIER)

\* the local `multiplier` at the return of apply_wind_shear
wind_multiplier(height_m) ==
    LET h == Max(height_m, MIN_HEIGHT_M)
    IN  Clamp(ShearPow(h), MIN_WIND_MULTIPLIER, MAX_WIND_MULTIPLIER)

apply_wind_shear(base_wind, height_m) ==
    Bind(wind_multiplier(height_m),
         LAMBDA multiplier :
            << RoundDiv(base_wind[1] * multiplier, MultDen),
               RoundDiv(base_wind[2] * multiplier, MultDen),
               RoundDiv(base_wind[3] * multiplier, MultDen) >>)

-----------------------------------------------------------------------------
(* Coefficient table lookup (lib.rs 69-129)                                *)

LUT_V_MIN == 5 * LenDen
LUT_V_MAX == 60 * LenDen
LUT_V_STEP == 1 * LenDen
LUT_S_MIN == 0
LUT_S_MAX == 4000
LUT_S_STEP == 50

\* the grid the fixed axes span: 55 velocity rows, 80 spin columns
LutRows == (LUT_V_MAX - LUT_V_MIN) \div LUT_V_STEP
LutCols == (LUT_S_MAX - LUT_S_MIN) \div LUT_S_STEP

\* A table is its shape and the rule that fills it (ArrayView2<f64>).
TableCell(tbl, i, j) ==
    CASE tbl.fill = "flat"  -> 30
      [] tbl.fill = "vramp" -> 20 + i \div 2
      [] tbl.fill = "sramp" -> 10 + j \div 2
      [] tbl.fill = "zero"  -> 0

InTable(tbl, cell) ==
    /\ cell[1] >= 0 /\ cell[1] < tbl.rows
    /\ cell[2] >= 0 /\ cell[2] < tbl.cols

TableValues(tbl) ==
    {TableCell(tbl, i, j) : i \in 0..(tbl.rows - 1), j \in 0..(tbl.cols - 1)}
TableMin(tbl) ==
    LET vals == TableValues(tbl) IN CHOOSE m \in vals : \A x \in vals : m <= x
TableMax(tbl) ==
    LET vals == TableValues(tbl) IN CHOOSE m \in vals : \A x \in vals : m >= x

\* usize::saturating_sub
SaturatingSub(a, b) == IF a >= b THEN a - b ELSE 0

\* the four cells read from each table, in the order the code reads them
LookupCells(v_idx, s_idx) ==
    << <<v_idx, s_idx>>, <<v_idx + 1, s_idx>>,
       <<v_idx, s_idx + 1>>, <<v_idx + 1, s_idx + 1>> >>

\* bilinear interpolation with weights v_frac/LUT_V_STEP and s_frac/LUT_S_STEP
Bilinear(tbl, v_idx, s_idx, v_frac, s_frac) ==
    RoundDiv(
        TableCell(tbl, v_idx, s_idx) * (LUT_V_STEP - v_frac) * (LUT_S_STEP - s_frac)
      + TableCell(tbl, v_idx + 1, s_idx) * v_frac * (LUT_S_STEP - s_frac)
      + TableCell(tbl, v_idx, s_idx + 1) * (LUT_V_STEP - v_frac) * s_frac
      + TableCell(tbl, v_idx + 1, s_idx + 1) * v_frac * s_frac,
        LUT_V_STEP * LUT_S_STEP)

\* the index clamp one cell short of the last interpolation cell
ClampIndexShort(idx, count) == Min(idx, SaturatingSub(count, 3))

\* the index clamp of lines 97-100, which reads the Cd table's shape only
ClampIndex(idx, count) == Min(idx, SaturatingSub(count, 2))

\* lines 89-104: the clamped inputs, the cell indices and the weights
LookupIndex(velocity, spin_rpm, cd_table) ==
    Bind(Clamp(velocity, LUT_V_MIN, LUT_V_MAX - LUT_V_STEP), LAMBDA v_clamped :
    Bind(Clamp(spin_rpm, LUT_S_MIN, LUT_S_MAX - LUT_S_STEP), LAMBDA s_clamped :
    Bind(ClampIndex(TruncDivUsize(v_clamped - LUT_V_MIN, LUT_V_STEP),
                    cd_table.rows), LAMBDA v_idx :
    Bind(ClampIndex(TruncDivUsize(s_clamped - LUT_S_MIN, LUT_S_STEP),
                    cd_table.cols), LAMBDA s_idx :
        [ v_idx |-> v_idx, s_idx |-> s_idx,
          v_frac |-> v_clamped - (LUT_V_MIN + v_idx * LUT_V_STEP),
          s_frac |-> s_clamped - (LUT_S_MIN + s_idx * LUT_S_STEP),
          cells |-> LookupCells(v_idx, s_idx) ]))))

\* lines 106-128 for the cells and weights ix: whether an index is out of
\* bounds (ndarray panics), and the (cd, cl) returned otherwise
LookupRead(ix, cd_table, cl_table) ==
    Bind((\A k \in 1..4 : InTable(cd_table, ix.cells[k]))
           /\ (\A k \in 1..4 : InTable(cl_table, ix.cells[k])),
         LAMBDA ok :
            [ v_idx |-> ix.v_idx, s_idx |-> ix.s_idx,
              v_frac |-> ix.v_frac, s_frac |-> ix.s_frac,
              cells |-> ix.cells,
              panicked |-> ~ok,
              cd |-> IF ok THEN Bilinear(cd_table, ix.v_idx, ix.s_idx,
                                         ix.v_frac, ix.s_frac) ELSE 0,
              cl |-> IF ok THEN Bilinear(cl_table, ix.v_idx, ix.s_idx,
                                         ix.v_frac, ix.s_frac) ELSE 0 ])

\* lookup_cd_cl: the indices and weights it computes, the cells it indexes,
\* whether it panics, and the (cd, cl) it returns
lookup_cd_cl(velocity, spin_rpm, cd_table, cl_table) ==
    Bind(LookupIndex(velocity, spin_rpm, cd_table),
         LAMBDA ix : LookupRead(ix, cd_table, cl_table))

-----------------------------------------------------------------------------
(* Force model (lib.rs 136-213)                                            *)

UnitDen == 1000      \* unit-vector grid
NEAR_ZERO == 0       \* the 1e-6 guards: below one grid unit

Norm3(v) == Sqrt(v[1] * v[1] + v[2] * v[2] + v[3] * v[3])
Unit3(v, mag) ==
    << RoundDiv(v[1] * UnitDen, mag), RoundDiv(v[2] * UnitDen, mag),
       RoundDiv(v[3] * UnitDen, mag) >>

\* 0.5 * c * air_density * cross_area * v^2 in dyn, with c on the 1/100 grid,
\* air_density in ug/cm^3, cross_area in cm^2 and v in cm/s; the product is
\* rescaled between the factors to stay inside the integer width
DynamicForce(c, air_density, cross_area, v_mag) ==
    RoundDiv(RoundDiv(c * RoundDiv(v_mag * v_mag, 1000), 1000)
               * (air_density * cross_area),
             2 * CoefDen)

Cross3(a, b) ==
    << RoundDiv(a[2] * b[3] - a[3] * b[2], UnitDen),
       RoundDiv(a[3] * b[1] - a[1] * b[3], UnitDen),
       RoundDiv(a[1] * b[2] - a[2] * b[1], UnitDen) >>

\* magnitude mag along direction dir of length dir_mag
Along(mag, dir, dir_mag) ==
    << RoundDiv(mag * dir[1], dir_mag), RoundDiv(mag * dir[2], dir_mag),
       RoundDiv(mag * dir[3], dir_mag) >>

\* lines 189-207: the Magnus force for a spin axis of length spin_mag
\* [magnus, divisors]: the Magnus term and the magnitudes it was divided by
MagnusAlongAxis(v_rel_unit, v_rel_mag, spin_axis, spin_mag, air_density, cross_area, cl) ==
    Bind(Cross3(v_rel_unit, Unit3(spin_axis, spin_mag)), LAMBDA force_dir :
    Bind(Norm3(force_dir), LAMBDA force_dir_mag :
        IF force_dir_mag > NEAR_ZERO
        THEN [ magnus |-> Along(DynamicForce(cl, air_density, cross_area,
                                             v_rel_mag),
                                force_dir, force_dir_mag),
               divisors |-> <<spin_mag, force_dir_mag>> ]
        ELSE [magnus |-> <<0, 0, 0>>, divisors |-> <<spin_mag>>]))

\* no Magnus term: nothing was divided
NoMagnus == [magnus |-> <<0, 0, 0>>, divisors |-> <<>>]

\* the Magnus term without the guard on the spin rate
MagnusForceAnySpin(v_rel_unit, v_rel_mag, spin_axis, spin_rpm, air_density, cross_area, cl) ==
    Bind(Norm3(spin_axis), LAMBDA spin_mag :
        IF spin_mag > NEAR_ZERO
        THEN MagnusAlongAxis(v_rel_unit, v_rel_mag, spin_axis, spin_mag,
                             air_density, cross_area, cl)
        ELSE NoMagnus)

\* the Magnus term of lines 177-209
MagnusForce(v_rel_unit, v_rel_mag, spin_axis, spin_rpm, air_density, cross_area, cl) ==
    IF spin_rpm > 1
    THEN Bind(Norm3(spin_axis), LAMBDA spin_mag :
            IF spin_mag > NEAR_ZERO
            THEN MagnusAlongAxis(v_rel_unit, v_rel_mag, spin_axis, spin_mag,
                                 air_density, cross_area, cl)
            ELSE NoMagnus)
    ELSE NoMagnus

\* lines 161-212: the force at relative velocity rel_velocity of magnitude
\* v_rel_mag >= 1e-6
ForceAtSpeed(rel_velocity, v_rel_mag, spin_axis, spin_rpm, air_density, cross_area, cd_table, cl_table) ==
    Bind(Unit3(rel_velocity, v_rel_mag), LAMBDA v_rel_unit :
    Bind(lookup_cd_cl(v_rel_mag, spin_rpm, cd_table, cl_table), LAMBDA c :
    Bind(Along(-DynamicForce(c.cd, air_density, cross_area, v_rel_mag),
               v_rel_unit, UnitDen), LAMBDA drag :
    Bind(MagnusForce(v_rel_unit, v_rel_mag, spin_axis, spin_rpm,
                     air_density, cross_area, c.cl), LAMBDA m :
        [ force |-> << drag[1] + m.magnus[1], drag[2] + m.magnus[2],
                       drag[3] + m.magnus[3] >>,
          drag |-> drag, magnus |-> m.magnus,
          divisors |-> <<v_rel_mag>> \o m.divisors,
          looked_up |-> TRUE, panicked |-> c.panicked ]))))

\* aerodynamic_force_with_wind: the force returned, with its drag and Magnus
\* terms, the magnitudes divided by, whether the tables were consulted and
\* whether that lookup panicked
aerodynamic_force_with_wind(velocity, wind_velocity, spin_axis, spin_rpm, air_density, cross_area, cd_table, cl_table) ==
    Bind(<< velocity[1] - wind_velocity[1], velocity[2] - wind_velocity[2],
            velocity[3] - wind_velocity[3] >>, LAMBDA rel_velocity :
    Bind(Norm3(rel_velocity), LAMBDA v_rel_mag :
        IF v_rel_mag <= NEAR_ZERO
        THEN [ force |-> <<0, 0, 0>>, drag |-> <<0, 0, 0>>,
               magnus |-> <<0, 0, 0>>, divisors |-> <<>>,
               looked_up |-> FALSE, panicked |-> FALSE ]
        ELSE ForceAtSpeed(rel_velocity, v_rel_mag, spin_axis, spin_rpm,
                          air_density, cross_area, cd_table, cl_table)))

-----------------------------------------------------------------------------
(* RK4 state integrator (lib.rs 220-319)                                   *)

\* derivative: [vx, vy, vz, ax, ay, az]
derivative(state, force) ==
    << state[4], state[5], state[6],
       RoundDiv(force[1], BALL_MASS),
       RoundDiv(force[2], BALL_MASS),
       RoundDiv(force[3], BALL_MASS) - GRAVITY >>

\* add_scaled: state + scale * deriv, scale in ms
add_scaled(state, deriv, scale) ==
    << state[1] + RoundDiv(scale * deriv[1], TimeDen),
       state[2] + RoundDiv(scale * deriv[2], TimeDen),
       state[3] + RoundDiv(scale * deriv[3], TimeDen),
       state[4] + RoundDiv(scale * deriv[4], TimeDen),
       state[5] + RoundDiv(scale * deriv[5], TimeDen),
       state[6] + RoundDiv(scale * deriv[6], TimeDen) >>

\* the derivative at stage state st: wind shear at the stage's height, force
\* at the stage's velocity
StageAt(st, base_wind_velocity, p) ==
    Bind(apply_wind_shear(base_wind_velocity, st[3]), LAMBDA wind :
    Bind(aerodynamic_force_with_wind(<<st[4], st[5], st[6]>>, wind,
             p.spin_axis, p.spin_rpm, p.air_density, p.cross_area,
             p.cd_table, p.cl_table), LAMBDA f :
        [k |-> derivative(st, f.force), panicked |-> f.panicked]))
StageDerivative(st, base_wind_velocity, p) ==
    Bind(st, LAMBDA v : StageAt(v, base_wind_velocity, p))

\* lines 291-300: the weighted average of the four stage derivatives
WeightedStep(state, dt, k1, k2, k3, k4) ==
    LET New(i) == state[i] + RoundDiv(dt * (k1[i] + 2 * k2[i] + 2 * k3[i] + k4[i]),
                                      6 * TimeDen)
    IN  << New(1), New(2), New(3), New(4), New(5), New(6) >>

\* a table index out of bounds unwinds the step: no state is returned
StepPanic(state) == [state |-> state, panicked |-> TRUE]

\* step_rk4_with_wind: the state after the step, or the panic of the first
\* stage whose table lookup indexes out of bounds
step_rk4_with_wind(state, dt, base_wind_velocity, p) ==
    Bind(StageDerivative(state, base_wind_velocity, p), LAMBDA s1 :
    IF s1.panicked THEN StepPanic(state) ELSE
    Bind(StageDerivative(add_scaled(state, s1.k, RoundDiv(dt, 2)),
                         base_wind_velocity, p), LAMBDA s2 :
    IF s2.panicked THEN StepPanic(state) ELSE
    Bind(StageDerivative(add_scaled(state, s2.k, RoundDiv(dt, 2)),
                         base_wind_velocity, p), LAMBDA s3 :
    IF s3.panicked THEN StepPanic(state) ELSE
    Bind(StageDerivative(add_scaled(state, s3.k, dt),
                         base_wind_velocity, p), LAMBDA s4 :
    IF s4.panicked THEN StepPanic(state) ELSE
        [ state |-> WeightedStep(state, dt, s1.k, s2.k, s3.k, s4.k),
          panicked |-> FALSE ]))))

\* step_rk4 (line 318)
step_rk4(state, dt, p) ==
    step_rk4_with_wind(state, dt, <<0, 0, 0>>, p)

-----------------------------------------------------------------------------
(* Airborne trajectory driver (lib.rs 670-760)                             *)

NEGLIGIBLE_DZ == 0   \* the 1e-10 m guard: below one grid unit

Pos(state) == <<state[1], state[2], state[3]>>
Vel(state) == <<state[4], state[5], state[6]>>

\* max_steps of line 683
MaxSteps(in) == TruncDivUsize(in.max_time, in.dt) + 10

\* lines 685-695: the state of the driver before its loop
DriverStart(in) ==
    [ state |-> in.initial_state,
      current_time |-> 0,
      positions |-> << Pos(in.initial_state) >>,
      velocities |-> << Vel(in.initial_state) >>,
      times |-> << 0 >>,
      steps |-> 0,            \* RK4 steps taken
      contact |-> FALSE,      \* the ground-contact branch was taken
      interpolated |-> FALSE, \* a landing sample was appended
      fraction |-> 0,
      pc |-> "loop" ]

\* a loop left only by its break
LoopUntilBreak(d, in) == d.pc = "loop"

\* the loop condition of line 698
LoopCondition(d, in) ==
    /\ d.current_time < in.max_time
    /\ Len(d.positions) < MaxSteps(in) - 1

\* a + fraction * (b - a)
Lerp(a, b, fraction) == a + RoundDiv(fraction * (b - a), FracDen)

\* the landing sample of lines 716-728
LandingSample(prev_pos, prev_vel, prev_time, state, in) ==
    Bind(RoundDiv((in.ground_level - prev_pos[3]) * FracDen,
                  state[3] - prev_pos[3]),
         LAMBDA fraction :
            [ fraction |-> fraction,
              pos |-> << Lerp(prev_pos[1], state[1], fraction),
                         Lerp(prev_pos[2], state[2], fraction),
                         in.ground_level >>,
              vel |-> << Lerp(prev_vel[1], state[4], fraction),
                         Lerp(prev_vel[2], state[5], fraction),
                         Lerp(prev_vel[3], state[6], fraction) >>,
              time |-> prev_time + RoundDiv(fraction * in.dt, FracDen) ])

\* lines 703-706: the post-step sample stored
StoreSample(d, state, dt) ==
    [d EXCEPT !.state = state, !.current_time = @ + dt,
              !.positions = Append(@, Pos(state)),
              !.velocities = Append(@, Vel(state)),
              !.times = Append(@, d.current_time + dt),
              !.steps = @ + 1]

\* lines 730-732: the landing sample appended
StoreLanding(d, l) ==
    [d EXCEPT !.positions = Append(@, l.pos),
              !.velocities = Append(@, l.vel),
              !.times = Append(@, l.time),
              !.contact = TRUE, !.interpolated = TRUE,
              !.fraction = l.fraction, !.pc = "break"]

\* lines 708-735: the ground-contact check after the sample was stored in d;
\* prev is the driver before the step
GroundContact(prev, d, in) ==
    IF d.state[3] <= in.ground_level /\ Len(d.positions) > 1
    THEN IF Abs(d.state[3] - prev.state[3]) > NEGLIGIBLE_DZ
         THEN Bind(LandingSample(Pos(prev.state), Vel(prev.state),
                                 prev.current_time, d.state, in),
                   LAMBDA l : StoreLanding(d, l))
         ELSE [d EXCEPT !.contact = TRUE, !.pc = "break"]
    ELSE d

\* one iteration of the loop of lines 698-736 under base wind `wind`
DriverIteration(d, in, wind) ==
    Bind(step_rk4_with_wind(d.state, in.dt, wind, in), LAMBDA step :
    IF step.panicked THEN [d EXCEPT !.pc = "panic"] ELSE
    Bind(StoreSample(d, step.state, in.dt), LAMBDA stored :
        GroundContact(d, stored, in)))

\* integrate_single_trajectory_with_wind: one loop iteration
integrate_single_trajectory_with_wind(d, in) ==
    DriverIteration(d, in, in.wind_velocity)

\* the no-wind driver keeping the caller's wind
integrate_single_trajectory_keep_wind(d, in) ==
    DriverIteration(d, in, <<-800, 300, 0>>)

\* integrate_single_trajectory: one loop iteration of the delegated call
integrate_single_trajectory(d, in) ==
    DriverIteration(d, in, <<0, 0, 0>>)

\* integrate_single_trajectory run to its return: the loop of lines 698-736
\* until its condition fails, its break is taken or a lookup panics
RECURSIVE TrajectoryResult(_, _)
TrajectoryResult(d, in) ==
    IF d.pc # "loop" \/ ~LoopCondition(d, in) THEN d
    ELSE Bind(integrate_single_trajectory(d, in),
              LAMBDA next : TrajectoryResult(next, in))

-----------------------------------------------------------------------------
(* Batch integration (lib.rs 882-961)                                      *)

\* lines 903-910: one element of `inputs` from row i of initial_states and
\* of spin_params, with the parameters every trajectory shares
BatchInput(p, state_row, spin_row) ==
    [ initial_state |-> state_row,
      dt |-> p.dt, max_time |-> p.max_time, ground_level |-> p.ground_level,
      wind_velocity |-> <<0, 0, 0>>,
      spin_axis |-> <<spin_row[1], spin_row[2], spin_row[3]>>,
      spin_rpm |-> spin_row[4],
      air_density |-> p.air_density, cross_area |-> p.cross_area,
      cd_table |-> p.cd_table, cl_table |-> p.cl_table ]

\* fold(0.0, f64::max) over the z of the samples
ApexHeight(positions) ==
    LET zs == {0} \cup { positions[k][3] : k \in 1..Len(positions) }
    IN  CHOOSE m \in zs : \A z \in zs : m >= z

\* lines 925-936: the summary of one TrajectoryResult
BatchSummary(result) ==
    LET n == Len(result.positions)
    IN  IF n > 0
        THEN [ panicked |-> FALSE, n |-> n,
               landing_pos |-> result.positions[n],
               landing_time |-> result.times[n],
               distance |-> Sqrt(result.positions[n][1] * result.positions[n][1]
                               + result.positions[n][2] * result.positions[n][2]),
               apex_height |-> ApexHeight(result.positions) ]
        ELSE [ panicked |-> FALSE, n |-> 0, landing_pos |-> <<0, 0, 0>>,
               landing_time |-> 0, distance |-> 0, apex_height |-> 0 ]

\* the closure of lines 918-937 on one element of `inputs`; a panic of the
\* integration unwinds the closure after n samples were pushed
BatchWorker(in) ==
    Bind(TrajectoryResult(DriverStart(in), in), LAMBDA result :
        IF result.pc = "panic"
        THEN [panicked |-> TRUE, n |-> Len(result.positions)]
        ELSE BatchSummary(result))

\* a sequential collection filled in the order the workers finish
ResultSlotByCompletion(i, order) == Len(order) + 1

\* par_iter().map().collect() into a Vec: the result of element i is
\* element i, whatever the order `order` in which workers finished
ResultSlot(i, order) == i

-----------------------------------------------------------------------------
(* Ground ball rolling and fielder interception (lib.rs 47-65, 334-587,    *)
(* 1118-1167). Field positions and distances in 1/10 ft, speeds in 1/1000  *)
(* mph and 1/1000 ft/s, accelerations in 1/1000 ft/s^2, times in ms,        *)
(* friction in 1/100, factors and unit vectors in 1/1000.                   *)

FeetDen == 10
SpeedDen == 1000

METERS_TO_FEET == 328084               \* 3.28084, in 1/100000
ROLLING_FRICTION_GRASS == 30
ROLLING_FRICTION_DIRT == 25
GROUND_BALL_AIR_RESISTANCE == 3 * SpeedDen
FIELDER_ACCELERATION == 28 * SpeedDen
FIELDER_MAX_SPEED == 30 * SpeedDen
CHARGE_BONUS_MAX == 20 * FeetDen

F64_MAX == 2000000000                  \* f64::MAX: above every time the model forms
F64_MIN == -F64_MAX                    \* f64::MIN is -f64::MAX
F64_INF == 2100000000                  \* +infinity: above f64::MAX

\* f64 addition and subtraction where an operand may be +infinity
PlusF(a, b) == IF a >= F64_INF \/ b >= F64_INF THEN F64_INF ELSE a + b
MinusF(a, b) == IF b >= F64_INF THEN -F64_INF ELSE a - b

\* mph -> ft/s and back (the factors 5280/3600 and 3600/5280)
MphToFps(mph) == RoundDiv(mph * 5280, 3600)
FpsToMph(fps) == RoundDiv(fps * 3600, 5280)

\* line 364: decel = GRAVITY * METERS_TO_FEET * friction + air resistance
Decel(friction) ==
    RoundDiv(RoundDiv(GRAVITY * METERS_TO_FEET, 10000) * friction, 100)
        + GROUND_BALL_AIR_RESISTANCE

\* lines 369-371: time_to_stop and effective_time
TimeToStop(v0_fps, decel) == RoundDiv(v0_fps * TimeDen, decel)

\* the distance of a ball that does not slow down
RollDistanceNoDecel(v0_fps, decel, t) ==
    RoundDiv(v0_fps * t, (SpeedDen * TimeDen) \div FeetDen)

\* line 374: distance = v0 * t - 0.5 * decel * t^2, in 1/10 ft
RollDistance(v0_fps, decel, t) ==
    RoundDiv(v0_fps * t - RoundDiv(decel * t, 2 * TimeDen) * t,
             (SpeedDen * TimeDen) \div FeetDen)

\* lines 377-387: the direction after the spin curve, normalised
CurvedDirection(direction, spin_effect, t) ==
    Bind(RoundDiv(spin_effect * t, 10 * TimeDen), LAMBDA curve_factor :
    Bind(<< direction[1] - RoundDiv(curve_factor * direction[2], UnitDen),
            direction[2] + RoundDiv(curve_factor * direction[1], UnitDen) >>,
         LAMBDA curved_dir :
    Bind(Sqrt(curved_dir[1] * curved_dir[1] + curved_dir[2] * curved_dir[2]),
         LAMBDA dir_mag :
            IF dir_mag > NEAR_ZERO
            THEN << RoundDiv(curved_dir[1] * UnitDen, dir_mag),
                    RoundDiv(curved_dir[2] * UnitDen, dir_mag) >>
            ELSE direction)))

\* line 396: current_velocity_fps = (v0 - decel * t).max(0.0)
RollSpeedFps(v0_fps, decel, t) ==
    Max(v0_fps - RoundDiv(decel * t, TimeDen), 0)

\* lines 363-398 for a positive time_after_landing
RollAt(result, v0_fps, decel, effective_time) ==
    Bind(RollDistance(v0_fps, decel, effective_time), LAMBDA distance :
    Bind(CurvedDirection(result.direction, result.spin_effect, effective_time),
         LAMBDA normalized_dir :
            [ pos |-> << result.landing_position[1]
                           + RoundDiv(distance * normalized_dir[1], UnitDen),
                         result.landing_position[2]
                           + RoundDiv(distance * normalized_dir[2], UnitDen) >>,
              vel |-> FpsToMph(RollSpeedFps(v0_fps, decel, effective_time)) ]))

\* ball_position_at_time: [pos, vel] of the rolling ball
ball_position_at_time(result, time_after_landing) ==
    IF time_after_landing <= 0
    THEN [pos |-> result.landing_position, vel |-> result.landing_velocity_mph]
    ELSE Bind(Decel(result.friction), LAMBDA decel :
         Bind(MphToFps(result.landing_velocity_mph), LAMBDA v0_fps :
            RollAt(result, v0_fps, decel,
                   Min(time_after_landing, TimeToStop(v0_fps, decel)))))

\* lines 463-472: the travel time over a positive distance at top speed
\* max_speed
TravelTime(distance_ft, max_speed, acceleration) ==
    Bind(RoundDiv(max_speed * max_speed, 2 * acceleration * (SpeedDen \div FeetDen)),
         LAMBDA accel_distance :
            IF distance_ft <= accel_distance
            THEN Sqrt(RoundDiv(2 * distance_ft * 1000000, acceleration \div 100))
            ELSE IF max_speed = 0
                 THEN F64_INF    \* remaining_distance / 0.0
                 ELSE RoundDiv(max_speed * TimeDen, acceleration)
                        + RoundDiv((distance_ft - accel_distance) * 100000,
                                   max_speed))

\* fielder_travel_time
fielder_travel_time(distance_ft, sprint_speed_fps, reaction_time, acceleration) ==
    IF distance_ft <= 0
    THEN reaction_time
    ELSE PlusF(reaction_time,
               TravelTime(distance_ft, Min(sprint_speed_fps, FIELDER_MAX_SPEED),
                          acceleration))

\* calculate_charge_bonus
calculate_charge_bonus(exit_velocity_mph, distance_to_landing, sprint_speed_fps) ==
    Bind(Clamp(1000 - RoundDiv(exit_velocity_mph - 60 * SpeedDen, 60), 200, 1000),
         LAMBDA velocity_factor :
    Bind(Clamp(RoundDiv(distance_to_landing * 1000, 150 * FeetDen), 300, 1000),
         LAMBDA distance_factor :
    Bind(RoundDiv(sprint_speed_fps, 27), LAMBDA speed_factor :
        Min(RoundDiv(RoundDiv(CHARGE_BONUS_MAX * velocity_factor * distance_factor,
                              1000) * speed_factor, 1000000),
            CHARGE_BONUS_MAX))))

\* the straight-line distance of lines 550-552 and 1145-1147
Distance2(a, b) ==
    Sqrt((a[1] - b[1]) * (a[1] - b[1]) + (a[2] - b[2]) * (a[2] - b[2]))

\* lines 528-535: the outcome the search starts from
Sentinel ==
    [ can_intercept |-> FALSE, interception_point |-> <<0, 0>>,
      fielder_time |-> F64_MAX, ball_time |-> 0, margin |-> F64_MIN,
      ball_velocity_mph |-> 0 ]

\* a candidate whose margin is fielder_time - ball_time
CandidateReversed(ball, total_ball_time, fielder_time) ==
    [ can_intercept |-> fielder_time - total_ball_time >= 0,
      interception_point |-> ball.pos,
      fielder_time |-> fielder_time, ball_time |-> total_ball_time,
      margin |-> fielder_time - total_ball_time,
      ball_velocity_mph |-> ball.vel ]

\* lines 568-581: the outcome built from one sample
Candidate(ball, total_ball_time, fielder_time) ==
    [ can_intercept |-> MinusF(total_ball_time, fielder_time) >= 0,
      interception_point |-> ball.pos,
      fielder_time |-> fielder_time, ball_time |-> total_ball_time,
      margin |-> MinusF(total_ball_time, fielder_time),
      ball_velocity_mph |-> ball.vel ]

MAX_TEST_TIME == 6000                  \* max_test_time = 6.0 s
TIME_STEP == 50                        \* time_step = 0.05 s
STOPPED_MPH == 100                     \* the 0.1 mph of line 545

\* a loop that never advances its offset
NextTestTimeStalled(test_time) == test_time

\* line 583: test_time += time_step
NextTestTime(test_time) == test_time + TIME_STEP

\* one sample of a search that keeps the latest candidate, whatever its margin
EvaluateSampleKeepLast(q, ball) ==
    Bind(fielder_travel_time(
             Max(Distance2(ball.pos, q.fielder.pos) - q.charge_bonus, 0),
             q.fielder.sprint_speed_fps, q.fielder.reaction_time,
             FIELDER_ACCELERATION), LAMBDA fielder_time :
        [q EXCEPT !.best = Candidate(ball, q.gb.landing_time + q.test_time,
                                     fielder_time),
                  !.evaluated = @ + 1,
                  !.test_time = NextTestTime(@)])

\* lines 549-583: one sample of the search whose ball still moves; q is the
\* search state [gb, fielder, charge_bonus, test_time, best, evaluated, pc]
EvaluateSample(q, ball) ==
    Bind(fielder_travel_time(
             Max(Distance2(ball.pos, q.fielder.pos) - q.charge_bonus, 0),
             q.fielder.sprint_speed_fps, q.fielder.reaction_time,
             FIELDER_ACCELERATION), LAMBDA fielder_time :
    Bind(Candidate(ball, q.gb.landing_time + q.test_time, fielder_time),
         LAMBDA cand :
            [q EXCEPT !.best = IF cand.margin > q.best.margin THEN cand ELSE @,
                      !.evaluated = @ + 1,
                      !.test_time = NextTestTime(@)]))

\* a loop head that admits offsets up to twice max_test_time
WithinHorizonTwice(q) == q.test_time <= 2 * MAX_TEST_TIME

\* line 541: test_time <= max_test_time
WithinHorizon(q) == q.test_time <= MAX_TEST_TIME

\* one pass through the loop head of line 541: the loop is left past
\* max_test_time or by the break of line 546, else the sample is evaluated
SearchIteration(q) ==
    IF q.pc # "loop" THEN q
    ELSE IF ~WithinHorizon(q) THEN [q EXCEPT !.pc = "returned"]
    ELSE Bind(ball_position_at_time(q.gb, q.test_time), LAMBDA ball :
            IF ball.vel < STOPPED_MPH
            THEN [q EXCEPT !.pc = "returned"]
            ELSE EvaluateSample(q, ball))

\* n passes from q; the whole loop is run as SearchRuns runs of SearchRunLen
\* passes each, which covers its 121 samples and the final test
SearchRunLen == 11
SearchRuns == ((MAX_TEST_TIME \div TIME_STEP) + 2) \div SearchRunLen + 1

RECURSIVE SearchPasses(_, _)
SearchPasses(q, n) ==
    IF n = 0 \/ q.pc # "loop" THEN q
    ELSE Bind(SearchIteration(q), LAMBDA next : SearchPasses(next, n - 1))

RECURSIVE SearchLoop(_, _)
SearchLoop(q, runs) ==
    IF runs = 0 \/ q.pc # "loop" THEN q
    ELSE Bind(SearchPasses(q, SearchRunLen),
              LAMBDA next : SearchLoop(next, runs - 1))

\* find_fielder_interception as one call: best_result when the loop is left
find_fielder_interception(ground_ball, fielder, charge_bonus) ==
    SearchLoop([gb |-> ground_ball, fielder |-> fielder,
                charge_bonus |-> charge_bonus, test_time |-> 0,
                best |-> Sentinel, evaluated |-> 0, pc |-> "loop"],
               SearchRuns).best

\* lines 1144-1158 and 1233-1246: the charge bonus of one fielder, then the
\* search for that fielder
FielderOutcome(ground_ball, fielder, exit_velocity_mph) ==
    find_fielder_interception(ground_ball, fielder,
        calculate_charge_bonus(exit_velocity_mph,
            Distance2(ground_ball.landing_position, fielder.pos),
            fielder.sprint_speed_fps))

-----------------------------------------------------------------------------
(* Ground ball bounce phase (lib.rs 593-667, 1022-1042). Restitution in    *)
(* 1/100, gravity in 1/1000 ft/s^2.                                        *)

GROUND_BALL_COR_GRASS == 45
GROUND_BALL_COR_DIRT == 50
GROUND_BALL_SPIN_EFFECT == 80          \* 0.08, in 1/1000
MAX_BOUNCES == 3                       \* the 3 of `bounces < 3`
MIN_BOUNCE_SPEED == 1 * SpeedDen       \* the 1.0 ft/s of `vz.abs() > 1.0`

\* line 626: g = GRAVITY * METERS_TO_FEET
GravityFps == RoundDiv(GRAVITY * METERS_TO_FEET, 10000)

\* lines 618-619: dir_mag and direction
LaunchDirection(vx_fps, vy_fps, vh_fps) ==
    IF vh_fps > NEAR_ZERO
    THEN << RoundDiv(vx_fps * UnitDen, vh_fps), RoundDiv(vy_fps * UnitDen, vh_fps) >>
    ELSE << vx_fps, vy_fps >>

\* lines 603-628: the state before the bounce loop
BounceStart(in) ==
    Bind(MphToFps(in.vx_mph), LAMBDA vx_fps :
    Bind(MphToFps(in.vy_mph), LAMBDA vy_fps :
    Bind(Sqrt(vx_fps * vx_fps + vy_fps * vy_fps), LAMBDA vh_fps :
        [ cor |-> IF in.is_grass THEN GROUND_BALL_COR_GRASS
                                 ELSE GROUND_BALL_COR_DIRT,
          friction |-> IF in.is_grass THEN ROLLING_FRICTION_GRASS
                                      ELSE ROLLING_FRICTION_DIRT,
          spin_effect |-> RoundDiv(in.spin_rpm * GROUND_BALL_SPIN_EFFECT, 1000),
          direction |-> LaunchDirection(vx_fps, vy_fps, vh_fps),
          pos |-> <<in.x0, in.y0>>,
          vz |-> MphToFps(in.vz_mph), vh |-> vh_fps,
          time |-> 0, bounces |-> 0, hops |-> 0 ])))

\* line 629: the loop condition
BounceCondition(b) == b.bounces < MAX_BOUNCES /\ Abs(b.vz) > MIN_BOUNCE_SPEED

\* lines 633-645: a hop of a ball going up, then the energy lost on the bounce
BounceHop(b) ==
    Bind(2 * RoundDiv(b.vz * TimeDen, GravityFps), LAMBDA t_air :
    Bind(RoundDiv(b.vh * t_air, (SpeedDen * TimeDen) \div FeetDen),
         LAMBDA distance :
        [b EXCEPT !.pos = << @[1] + RoundDiv(distance * b.direction[1], UnitDen),
                             @[2] + RoundDiv(distance * b.direction[2], UnitDen) >>,
                  !.time = @ + t_air,
                  !.vz = RoundDiv(b.vz * b.cor, 100),
                  !.vh = RoundDiv(b.vh * (1000 - b.friction), 1000),
                  !.hops = @ + 1,
                  !.bounces = @ + 1]))

\* a first impact that also takes the horizontal loss of a bounce
BounceReflectWithLoss(b) ==
    [b EXCEPT !.vz = RoundDiv((-b.vz) * b.cor, 100),
              !.vh = RoundDiv(b.vh * (1000 - b.friction), 1000),
              !.bounces = @ + 1]

\* lines 646-650: the first impact of a ball already going down
BounceReflect(b) ==
    [b EXCEPT !.vz = RoundDiv((-b.vz) * b.cor, 100), !.bounces = @ + 1]

\* one iteration of the loop of lines 629-653
BounceIteration(b) == IF b.vz > 0 THEN BounceHop(b) ELSE BounceReflect(b)

\* lines 655-666: the GroundBallResult built after the loop
GroundBallResult(b) ==
    [ landing_position |-> b.pos,
      landing_velocity_mph |-> FpsToMph(b.vh),
      direction |-> b.direction,
      landing_time |-> b.time,
      friction |-> b.friction,
      spin_effect |-> b.spin_effect ]

\* simulate_ground_ball_initial, the loop run to its exit
RECURSIVE BounceLoop(_)
BounceLoop(b) == IF BounceCondition(b) THEN BounceLoop(BounceIteration(b)) ELSE b
simulate_ground_ball_initial(in) == GroundBallResult(BounceLoop(BounceStart(in)))

\* a slot of `results` no parallel worker has filled yet
Pending == [pending |-> TRUE]

\* the selection of lines 1272-1277 taking any margin not below the best
SelectNotBelow(q, result) ==
    [q EXCEPT !.best_idx = IF result.margin >= q.best.margin THEN q.i - 1 ELSE @,
              !.best = IF result.margin >= q.best.margin THEN result ELSE @,
              !.i = @ + 1]

\* lines 1272-1277: one iteration of the selection loop over results; q.i is
\* the 1-based position in results, best_idx the 0-based index returned
SelectBest(q, result) ==
    [q EXCEPT !.best_idx = IF result.margin > q.best.margin THEN q.i - 1 ELSE @,
              !.best = IF result.margin > q.best.margin THEN result ELSE @,
              !.i = @ + 1]

-----------------------------------------------------------------------------
(* Inputs of the wind-shear and lookup behaviours                          *)

MaxShearCalls == 2

ShearBases == { <<0, 0, 0>>, <<500, -300, 100>> }
ShearHeights == { -500, 0, 50, 100, 500, 1000, 1500, 3000,
                  10000, 14198, 14199, 20000, 100000 }

TableShapes == { <<1, 1>>, <<2, 2>>, <<3, 2>>, <<LutRows, LutCols>>,
                 <<LutRows + 1, LutCols + 1>> }
TableFills == { "flat", "vramp", "sramp" }
Tables == { [rows |-> sh[1], cols |-> sh[2], fill |-> f] :
            sh \in TableShapes, f \in TableFills }
LookupVelocities == { -1000, 0, 499, 500, 550, 1234, 5850, 5900, 5950,
                      6000, 7000, 100000 }
LookupSpins == { -100, 0, 25, 50, 1999, 3900, 3949, 3950, 4000, 10000 }

InitShear ==
    /\ op = "shear"
    /\ \E b \in ShearBases :
          shear = [base |-> b, n |-> 0,
                   height |-> 0, mult |-> 0, out |-> <<0, 0, 0>>,
                   prev_height |-> 0, prev_mult |-> 0]
    /\ lut = Idle /\ flight = Idle /\ roll = Idle /\ search = Idle

InitLookup ==
    /\ op = "lookup"
    /\ \E cd \in Tables, cl \in Tables :
          /\ cd.fill # cl.fill => (cd.rows = cl.rows /\ cd.cols = cl.cols)
          /\ lut = [cd_table |-> cd, cl_table |-> cl, called |-> FALSE,
                    velocity |-> 0, spin_rpm |-> 0,
                    res |-> lookup_cd_cl(0, 0, cd, cd)]
    /\ shear = Idle /\ flight = Idle /\ roll = Idle /\ search = Idle

\* one call of apply_wind_shear(base, h)
ApplyWindShear ==
    /\ op = "shear"
    /\ shear.n < MaxShearCalls
    /\ \E h \in ShearHeights :
          shear' = [shear EXCEPT !.n = @ + 1,
                                 !.height = h,
                                 !.mult = wind_multiplier(h),
                                 !.out = apply_wind_shear(shear.base, h),
                                 !.prev_height = shear.height,
                                 !.prev_mult = shear.mult]
    /\ UNCHANGED <<op, lut, flight, roll, search>>

\* one call of lookup_cd_cl(v, s, cd_table, cl_table)
LookupCdCl ==
    /\ op = "lookup"
    /\ ~lut.called
    /\ \E v \in LookupVelocities, s \in LookupSpins :
          lut' = [lut EXCEPT !.called = TRUE, !.velocity = v, !.spin_rpm = s,
                             !.res = lookup_cd_cl(v, s, lut.cd_table, lut.cl_table)]
    /\ UNCHANGED <<op, shear, flight, roll, search>>

-----------------------------------------------------------------------------
(* The airborne behaviour: integrate_trajectory_with_wind, then             *)
(* integrate_trajectory on the same inputs (lib.rs 769-875)                *)

FullTable(fill) == [rows |-> LutRows, cols |-> LutCols, fill |-> fill]

FlightHeights == { -100, 50, 300 }                \* initial z, cm
FlightClimbs == { -300, 49, 900 }                 \* initial vz, cm/s
FlightHorizontals == { <<0, 0>>, <<1500, 800>> }  \* initial vx, vy, cm/s
FlightSteps == { 100, 250 }                       \* dt, ms
FlightMaxTimes == { -2500, 0, 1000, 2500 }        \* max_time, ms
FlightGrounds == { 0, 50 }                        \* ground_level, cm
FlightWinds == { <<0, 0, 0>>, <<-800, 300, 0>> }  \* wind_velocity, cm/s
FlightSpins == { [axis |-> <<0, 0, 0>>, rpm |-> 0],
                 [axis |-> <<800, -600, 0>>, rpm |-> 2000] }

FlightInputs ==
    { [ initial_state |-> <<0, 0, z, h[1], h[2], vz>>,
        dt |-> dt, max_time |-> mt, ground_level |-> g,
        wind_velocity |-> w, spin_axis |-> sp.axis, spin_rpm |-> sp.rpm,
        air_density |-> 1225, cross_area |-> 42,
        cd_table |-> FullTable("vramp"), cl_table |-> FullTable("flat") ] :
      z \in FlightHeights, vz \in FlightClimbs, h \in FlightHorizontals,
      dt \in FlightSteps, mt \in FlightMaxTimes, g \in FlightGrounds,
      w \in FlightWinds, sp \in FlightSpins }

InitFlight ==
    /\ op = "flight"
    /\ \E in \in FlightInputs :
          flight = [in |-> in, call |-> "with_wind",
                    w |-> DriverStart(in), n |-> DriverStart(in)]
    /\ shear = Idle /\ lut = Idle /\ roll = Idle /\ search = Idle

\* one iteration of the wind-aware driver's loop
TrajectoryStep ==
    /\ op = "flight" /\ flight.call = "with_wind"
    /\ flight.w.pc = "loop" /\ LoopCondition(flight.w, flight.in)
    /\ flight' = [flight EXCEPT
                    !.w = integrate_single_trajectory_with_wind(flight.w, flight.in)]
    /\ UNCHANGED <<op, shear, lut, roll, search>>

\* the wind-aware driver leaves its loop and returns its TrajectoryResult
TrajectoryReturn ==
    /\ op = "flight" /\ flight.call = "with_wind"
    /\ flight.w.pc = "break" \/ ~LoopCondition(flight.w, flight.in)
    /\ flight' = [flight EXCEPT !.w.pc = "done", !.call = "no_wind"]
    /\ UNCHANGED <<op, shear, lut, roll, search>>

\* one iteration of the no-wind driver's loop
NoWindStep ==
    /\ op = "flight" /\ flight.call = "no_wind"
    /\ flight.n.pc = "loop" /\ LoopCondition(flight.n, flight.in)
    /\ flight' = [flight EXCEPT
                    !.n = integrate_single_trajectory(flight.n, flight.in)]
    /\ UNCHANGED <<op, shear, lut, roll, search>>

\* the no-wind driver leaves its loop and returns its TrajectoryResult
NoWindReturn ==
    /\ op = "flight" /\ flight.call = "no_wind"
    /\ flight.n.pc = "break" \/ ~LoopCondition(flight.n, flight.in)
    /\ flight' = [flight EXCEPT !.n.pc = "done", !.call = "returned"]
    /\ UNCHANGED <<op, shear, lut, roll, search>>

-----------------------------------------------------------------------------
(* The rolling behaviour: calls of ball_position_at_time on one ground     *)
(* ball; the interception behaviour: find_interception_point               *)

MaxRollCalls == 2

GroundBalls ==
    { [ landing_position |-> <<600, 300>>, landing_velocity_mph |-> v,
        direction |-> d, landing_time |-> lt, friction |-> f,
        spin_effect |-> se ] :
      v \in { 0, 50, 3000, 35000, 90000 },
      d \in { <<1000, 0>>, <<-600, 800>> },
      lt \in { 0, 1500 },
      f \in { ROLLING_FRICTION_GRASS, ROLLING_FRICTION_DIRT },
      se \in { 0, 160 } }

RollTimes == { -500, 0, 50, 1000, 4000, 4100, 20000 }

Fielders ==
    { [ pos |-> p, sprint_speed_fps |-> sp, reaction_time |-> 200,
        exit_velocity_mph |-> ev ] :
      p \in { <<600, 300>>, <<1500, 400>>, <<-300, 2500>> },
      sp \in { 0, 24000, 32000 },
      ev \in { 70000, 110000 } }

InitRoll ==
    /\ op = "roll"
    /\ \E gb \in GroundBalls :
          /\ gb.landing_time = 0
          /\ roll = [gb |-> gb, n |-> 0, time |-> 0,
                     pos |-> gb.landing_position, vel |-> gb.landing_velocity_mph,
                     prev_time |-> 0, prev_vel |-> gb.landing_velocity_mph]
    /\ shear = Idle /\ lut = Idle /\ flight = Idle /\ search = Idle

InitSearch ==
    /\ op = "search"
    /\ \E gb \in GroundBalls, f \in Fielders :
          /\ gb.spin_effect = 0 \/ gb.friction = ROLLING_FRICTION_GRASS
          /\ search = [gb |-> gb, fielder |-> f, charge_bonus |-> 0,
                       test_time |-> 0, best |-> Sentinel, evaluated |-> 0,
                       pc |-> "call"]
    /\ shear = Idle /\ lut = Idle /\ flight = Idle /\ roll = Idle

\* one call of ball_position_at_time(gb, t)
BallPositionAtTime ==
    /\ op = "roll"
    /\ roll.n < MaxRollCalls
    /\ \E t \in RollTimes :
          roll' = [roll EXCEPT
                     !.n = @ + 1, !.time = t,
                     !.pos = ball_position_at_time(roll.gb, t).pos,
                     !.vel = ball_position_at_time(roll.gb, t).vel,
                     !.prev_time = roll.time, !.prev_vel = roll.vel]
    /\ UNCHANGED <<op, shear, lut, flight, search>>

\* find_interception_point up to the search loop (lines 1135-1149, 528-541)
FindInterceptionPoint ==
    /\ op = "search" /\ search.pc = "call"
    /\ search' = [search EXCEPT
                    !.charge_bonus =
                        calculate_charge_bonus(
                            search.fielder.exit_velocity_mph,
                            Distance2(search.gb.landing_position, search.fielder.pos),
                            search.fielder.sprint_speed_fps),
                    !.best = Sentinel, !.test_time = 0, !.pc = "loop"]
    /\ UNCHANGED <<op, shear, lut, flight, roll>>

\* one iteration of the loop of lines 541-584 on a ball that still moves
SearchSample ==
    /\ op = "search" /\ search.pc = "loop"
    /\ WithinHorizon(search)
    /\ ball_position_at_time(search.gb, search.test_time).vel >= STOPPED_MPH
    /\ search' = SearchIteration(search)
    /\ UNCHANGED <<op, shear, lut, flight, roll>>

\* the break of line 546: the ball has stopped; best_result is returned
SearchBreak ==
    /\ op = "search" /\ search.pc = "loop"
    /\ WithinHorizon(search)
    /\ ball_position_at_time(search.gb, search.test_time).vel < STOPPED_MPH
    /\ search' = [search EXCEPT !.pc = "returned"]
    /\ UNCHANGED <<op, shear, lut, flight, roll>>

\* the loop ends past max_test_time; best_result is returned
SearchExit ==
    /\ op = "search" /\ search.pc = "loop"
    /\ ~WithinHorizon(search)
    /\ search' = [search EXCEPT !.pc = "returned"]
    /\ UNCHANGED <<op, shear, lut, flight, roll>>

\* The team behaviour: find_best_interception, its parallel per-fielder
\* searches completing in any order, then its selection loop

TeamBalls ==
    { gb \in GroundBalls :
         /\ gb.landing_time = 1500 /\ gb.spin_effect = 0
         /\ gb.friction = ROLLING_FRICTION_GRASS }

TeamFielder(p, sp) ==
    [pos |-> p, sprint_speed_fps |-> sp, reaction_time |-> 200]

Teams ==
    { << >>,
      << TeamFielder(<<1500, 400>>, 32000) >>,
      << TeamFielder(<<-300, 2500>>, 0) >>,
      << TeamFielder(<<-300, 2500>>, 24000), TeamFielder(<<1500, 400>>, 32000) >>,
      << TeamFielder(<<1500, 400>>, 24000), TeamFielder(<<1500, 400>>, 24000) >>,
      << TeamFielder(<<-300, 2500>>, 0), TeamFielder(<<-300, 2500>>, 24000),
         TeamFielder(<<600, 300>>, 24000) >>,
      << TeamFielder(<<1500, 400>>, 32000), TeamFielder(<<-300, 2500>>, 24000),
         TeamFielder(<<1500, 400>>, 32000) >> }

TeamExitVelocities == { 70000, 110000 }

InitTeam ==
    /\ op = "team"
    /\ \E gb \in TeamBalls, team \in Teams, ev \in TeamExitVelocities :
          search = [gb |-> gb, team |-> team, exit_velocity_mph |-> ev,
                    results |-> [i \in 1..Len(team) |-> Pending],
                    pc |-> "workers", i |-> 1,
                    best_idx |-> -1, best |-> Sentinel]
    /\ shear = Idle /\ lut = Idle /\ flight = Idle /\ roll = Idle

\* one parallel worker of lines 1240-1258 finishes the search of its fielder
\* and stores it in that fielder's slot of results; workers finish in any order
WorkerCompletes ==
    /\ op = "team" /\ search.pc = "workers"
    /\ \E i \in 1..Len(search.team) :
          /\ search.results[i] = Pending
          /\ search' = [search EXCEPT
                          !.results[i] = FielderOutcome(search.gb, search.team[i],
                                                        search.exit_velocity_mph)]
    /\ UNCHANGED <<op, shear, lut, flight, roll>>

\* collect() of line 1258 returns once every worker has finished; lines
\* 1262-1270 start the selection
CollectResults ==
    /\ op = "team" /\ search.pc = "workers"
    /\ \A i \in 1..Len(search.team) : search.results[i] # Pending
    /\ search' = [search EXCEPT !.pc = "select", !.i = 1,
                                !.best_idx = -1, !.best = Sentinel]
    /\ UNCHANGED <<op, shear, lut, flight, roll>>

\* one iteration of the selection loop of lines 1272-1277
SelectStep ==
    /\ op = "team" /\ search.pc = "select"
    /\ search.i <= Len(search.results)
    /\ search' = SelectBest(search, search.results[search.i])
    /\ UNCHANGED <<op, shear, lut, flight, roll>>

\* lines 1279-1288: the tuple of best_idx and best_result is returned
TeamReturn ==
    /\ op = "team" /\ search.pc = "select"
    /\ search.i > Len(search.results)
    /\ search' = [search EXCEPT !.pc = "returned"]
    /\ UNCHANGED <<op, shear, lut, flight, roll>>

-----------------------------------------------------------------------------
(* The batch behaviour: one call of integrate_trajectories_batch           *)

BatchRowA == <<0, 0, 100, 1500, 800, 900>>
BatchRowB == <<0, 0, 50, 0, 0, -300>>
BatchRowC == <<0, 0, 300, 1500, 800, 49>>
BatchStates ==
    { <<>>, <<BatchRowA>>, <<BatchRowA, BatchRowB>>, <<BatchRowB, BatchRowA>>,
      <<BatchRowA, BatchRowB, BatchRowC>>, <<BatchRowC, BatchRowA, BatchRowA>> }
BatchSpinNone == <<0, 0, 0, 0>>
BatchSpinBack == <<800, -600, 0, 2000>>
BatchSpins ==
    { <<>>, <<BatchSpinBack>>, <<BatchSpinNone, BatchSpinBack>>,
      <<BatchSpinBack, BatchSpinNone, BatchSpinBack>> }
BatchTables ==
    { <<FullTable("vramp"), FullTable("flat")>>,
      <<[rows |-> 1, cols |-> 1, fill |-> "flat"], FullTable("flat")>>,
      <<[rows |-> 2, cols |-> 1, fill |-> "vramp"],
        [rows |-> 2, cols |-> 1, fill |-> "flat"]>>,
      <<[rows |-> 2, cols |-> 2, fill |-> "vramp"],
        [rows |-> 2, cols |-> 2, fill |-> "flat"]>> }
BatchMaxTimes == { 0, 2500 }

InitBatch ==
    /\ op = "batch"
    /\ \E st \in BatchStates, sp \in BatchSpins, tb \in BatchTables,
          mt \in BatchMaxTimes :
          flight = [ states |-> st, spins |-> sp,
                     p |-> [ dt |-> 250, max_time |-> mt, ground_level |-> 0,
                             air_density |-> 1225, cross_area |-> 42,
                             cd_table |-> tb[1], cl_table |-> tb[2] ],
                     pc |-> "inputs", inputs |-> <<>>, results |-> <<>>,
                     order |-> <<>>, out |-> <<>> ]
    /\ shear = Idle /\ lut = Idle /\ roll = Idle /\ search = Idle

\* lines 899-912: `inputs` is built from row i of both arrays for every row
\* of initial_states; a row missing from spin_params is an index out of
\* bounds (panic), further rows of spin_params are not read
BatchCollectInputs ==
    /\ op = "batch" /\ flight.pc = "inputs"
    /\ flight' =
          IF Len(flight.spins) < Len(flight.states)
          THEN [flight EXCEPT !.pc = "panicked"]
          ELSE [flight EXCEPT
                  !.pc = "workers",
                  !.inputs = [i \in 1..Len(flight.states) |->
                                BatchInput(flight.p, flight.states[i],
                                           flight.spins[i])],
                  !.results = [i \in 1..Len(flight.states) |-> Pending]]
    /\ UNCHANGED <<op, shear, lut, roll, search>>

\* lines 915-938: a worker finishes the closure on one element, in any order
BatchWorkerCompletes ==
    /\ op = "batch" /\ flight.pc = "workers"
    /\ \E i \in 1..Len(flight.inputs) :
          /\ \A k \in 1..Len(flight.order) : flight.order[k] # i
          /\ flight' = [flight EXCEPT
                          !.results[ResultSlot(i, flight.order)] =
                              BatchWorker(flight.inputs[i]),
                          !.order = Append(@, i)]
    /\ UNCHANGED <<op, shear, lut, roll, search>>

\* a worker's panic is propagated to the caller once the workers have stopped;
\* elements not yet started may never be
BatchPanics ==
    /\ op = "batch" /\ flight.pc = "workers"
    /\ \E i \in 1..Len(flight.results) :
          flight.results[i] # Pending /\ flight.results[i].panicked
    /\ flight' = [flight EXCEPT !.pc = "panicked"]
    /\ UNCHANGED <<op, shear, lut, roll, search>>

\* lines 939-960: the results are written to the output arrays row by row
BatchReturn ==
    /\ op = "batch" /\ flight.pc = "workers"
    /\ Len(flight.order) = Len(flight.inputs)
    /\ \A i \in 1..Len(flight.results) : ~flight.results[i].panicked
    /\ flight' = [flight EXCEPT
                    !.pc = "returned",
                    !.out = [i \in 1..Len(flight.results) |-> flight.results[i]]]
    /\ UNCHANGED <<op, shear, lut, roll, search>>

-----------------------------------------------------------------------------
(* The bounce behaviour: one call of simulate_ground_ball                  *)

BounceInputs ==
    { [ x0 |-> 600, y0 |-> 300, vx_mph |-> vx, vy_mph |-> vy, vz_mph |-> vz,
        spin_rpm |-> s, is_grass |-> gr ] :
      vx \in { -18000, 0, 24000 }, vy \in { 0, 18000 },
      vz \in { -5000, -500, 0, 500, 5000, 20000 },
      s \in { 0, 2000 }, gr \in BOOLEAN }

InitBounce ==
    /\ op = "bounce"
    /\ \E in \in BounceInputs :
          roll = [in |-> in, b |-> BounceStart(in), pc |-> "loop",
                  result |-> Pending]
    /\ shear = Idle /\ lut = Idle /\ flight = Idle /\ search = Idle

\* one iteration of the bounce loop
BounceStep ==
    /\ op = "bounce" /\ roll.pc = "loop" /\ BounceCondition(roll.b)
    /\ roll' = [roll EXCEPT !.b = BounceIteration(roll.b)]
    /\ UNCHANGED <<op, shear, lut, flight, search>>

\* the loop is left and simulate_ground_ball returns the result's fields
SimulateGroundBallReturn ==
    /\ op = "bounce" /\ roll.pc = "loop" /\ ~BounceCondition(roll.b)
    /\ roll' = [roll EXCEPT !.pc = "returned", !.result = GroundBallResult(roll.b)]
    /\ UNCHANGED <<op, shear, lut, flight, search>>

-----------------------------------------------------------------------------
(* The force behaviour: one call of aerodynamic_force_with_wind            *)

ForceVelocities == { <<0, 0, 0>>, <<3000, 0, 0>>, <<1500, 800, 900>>,
                     <<-800, 300, 0>>, <<0, 0, -1>> }
ForceWinds == { <<0, 0, 0>>, <<-800, 300, 0>>, <<3000, 0, 0>> }
ForceAxes == { <<0, 0, 0>>, <<0, 0, 1000>>, <<1000, 0, 0>>, <<800, -600, 0>> }
ForceSpinRates == { 0, 1, 2, 2000 }

InitForce ==
    /\ op = "force"
    /\ \E v \in ForceVelocities, w \in ForceWinds, ax \in ForceAxes,
          s \in ForceSpinRates :
          lut = [ velocity |-> v, wind_velocity |-> w, spin_axis |-> ax,
                  spin_rpm |-> s, air_density |-> 1225, cross_area |-> 42,
                  cd_table |-> FullTable("vramp"), cl_table |-> FullTable("flat"),
                  called |-> FALSE, res |-> Pending ]
    /\ shear = Idle /\ flight = Idle /\ roll = Idle /\ search = Idle

\* the call of aerodynamic_force_with_wind
AerodynamicForce ==
    /\ op = "force" /\ ~lut.called
    /\ lut' = [lut EXCEPT
                 !.called = TRUE,
                 !.res = aerodynamic_force_with_wind(lut.velocity,
                            lut.wind_velocity, lut.spin_axis, lut.spin_rpm,
                            lut.air_density, lut.cross_area, lut.cd_table,
                            lut.cl_table)]
    /\ UNCHANGED <<op, shear, flight, roll, search>>

-----------------------------------------------------------------------------
(* The charge behaviour: calls of calculate_charge_bonus for one fielder   *)

MaxChargeCalls == 2

ChargeExitVelocities == { 40000, 60000, 70000, 90000, 110000, 130000 }
ChargeDistances == { 0, 300, 450, 900, 1500, 2500 }
ChargeSprintSpeeds == { 0, 24000, 27000, 32000, 40000 }

InitCharge ==
    /\ op = "charge"
    /\ \E sp \in ChargeSprintSpeeds :
          shear = [ sprint_speed_fps |-> sp, n |-> 0,
                    exit_velocity_mph |-> 0, distance_to_landing |-> 0,
                    bonus |-> 0,
                    prev_exit_velocity_mph |-> 0, prev_distance_to_landing |-> 0,
                    prev_bonus |-> 0 ]
    /\ lut = Idle /\ flight = Idle /\ roll = Idle /\ search = Idle

\* one call of calculate_charge_bonus(ev, d, sprint_speed_fps)
CalculateChargeBonus ==
    /\ op = "charge"
    /\ shear.n < MaxChargeCalls
    /\ \E ev \in ChargeExitVelocities, d \in ChargeDistances :
          shear' = [shear EXCEPT
                      !.n = @ + 1,
                      !.exit_velocity_mph = ev, !.distance_to_landing = d,
                      !.bonus = calculate_charge_bonus(ev, d,
                                                       shear.sprint_speed_fps),
                      !.prev_exit_velocity_mph = shear.exit_velocity_mph,
                      !.prev_distance_to_landing = shear.distance_to_landing,
                      !.prev_bonus = shear.bonus]
    /\ UNCHANGED <<op, lut, flight, roll, search>>

Init ==
    \/ InitShear \/ InitLookup \/ InitFlight \/ InitRoll \/ InitSearch
    \/ InitTeam \/ InitBatch \/ InitBounce \/ InitForce \/ InitCharge

Next ==
    \/ ApplyWindShear
    \/ LookupCdCl
    \/ TrajectoryStep
    \/ TrajectoryReturn
    \/ NoWindStep
    \/ NoWindReturn
    \/ BallPositionAtTime
    \/ FindInterceptionPoint
    \/ SearchSample
    \/ SearchBreak
    \/ SearchExit
    \/ WorkerCompletes
    \/ CollectResults
    \/ SelectStep
    \/ TeamReturn
    \/ BatchCollectInputs
    \/ BatchWorkerCompletes
    \/ BatchPanics
    \/ BatchReturn
    \/ BounceStep
    \/ SimulateGroundBallReturn
    \/ AerodynamicForce
    \/ CalculateChargeBonus

Spec == Init /\ [][Next]_vars

\* the steps of the trajectory drivers and of the single-fielder search
Running ==
    \/ TrajectoryStep \/ TrajectoryReturn \/ NoWindStep \/ NoWindReturn
    \/ FindInterceptionPoint \/ SearchSample \/ SearchBreak \/ SearchExit

\* a driver or a search, once called, runs to its return
FairSpec == Spec /\ WF_vars(Running)

-----------------------------------------------------------------------------
(* Claims                                                                  *)

FullGrid(tbl) == tbl.rows >= LutRows /\ tbl.cols >= LutCols
NoSmaller(a, b) == a.rows >= b.rows /\ a.cols >= b.cols
AtLeast2x2(tbl) == tbl.rows >= 2 /\ tbl.cols >= 2

\* C5 (as stated): for any velocity, any spin rate and any pair of tables, the
\* four cells lookup_cd_cl indexes lie inside the bounds of the Cd table and
\* of the Cl table.
C5_ReadsInBounds ==
    (op = "lookup" /\ lut.called) =>
        \A k \in 1..4 : /\ InTable(lut.cd_table, lut.res.cells[k])
                        /\ InTable(lut.cl_table, lut.res.cells[k])

\* the interpolation weights lie in [0, 1] and the returned Cd and Cl lie
\* between the global minimum and maximum of their tables
LookupWithinTable ==
    /\ ~lut.res.panicked
    /\ lut.res.v_frac >= 0 /\ lut.res.v_frac <= LUT_V_STEP
    /\ lut.res.s_frac >= 0 /\ lut.res.s_frac <= LUT_S_STEP
    /\ lut.res.cd >= TableMin(lut.cd_table) /\ lut.res.cd <= TableMax(lut.cd_table)
    /\ lut.res.cl >= TableMin(lut.cl_table) /\ lut.res.cl <= TableMax(lut.cl_table)

C7_ShearMultiplier ==
    (op = "shear" /\ shear.n >= 1) =>
        /\ shear.mult >= 1 * MultDen
        /\ 10 * shear.mult <= 17 * MultDen
        /\ \A i \in 1..3 :
              shear.out[i] = RoundDiv(shear.base[i] * shear.mult, MultDen)
        /\ (shear.n >= 2 /\ shear.prev_height <= shear.height)
              => shear.prev_mult <= shear.mult

\* two calls, the first below the 1 m floor, the second higher and amplified
C7_Witness ==
    /\ op = "shear" /\ shear.n = 2
    /\ shear.base # <<0, 0, 0>>
    /\ shear.prev_height < 0
    /\ shear.height > WIND_REF_HEIGHT_M
    /\ shear.mult > shear.prev_mult
    /\ shear.out # shear.base

-----------------------------------------------------------------------------
(* Claims about the airborne driver                                        *)

Last(seq) == seq[Len(seq)]
Increasing(seq) == \A i \in 1..(Len(seq) - 1) : seq[i] < seq[i + 1]
Returned(d) == d.pc = "done"
ZeroWind == <<0, 0, 0>>

\* C2 (as stated): the samples of the wind-aware driver start with the initial
\* state at t = 0, their times increase strictly over every consecutive pair,
\* the pair of the raw post-step sample and the interpolated landing sample
\* included, and after a ground contact the last sample is at ground level.
C2_TimeIncreasing ==
    op = "flight" =>
        /\ flight.w.times[1] = 0
        /\ flight.w.positions[1] = Pos(flight.in.initial_state)
        /\ Increasing(flight.w.times)
        /\ flight.w.interpolated =>
              Last(flight.w.positions)[3] = flight.in.ground_level

\* C3 (as stated): a launch with positive vertical velocity and zero wind
\* whose integration ends by ground contact has a final sample whose z equals
\* ground_level, never less.
C3_FinalSampleAtGround ==
    (op = "flight" /\ Returned(flight.w) /\ flight.w.contact
       /\ flight.in.initial_state[6] > 0 /\ flight.in.wind_velocity = ZeroWind)
    => Last(flight.w.positions)[3] = flight.in.ground_level

\* the samples held by either driver number at most `bound`
SamplesWithin(bound) ==
    /\ Len(flight.w.times) <= bound /\ Len(flight.w.positions) <= bound
    /\ Len(flight.n.times) <= bound /\ Len(flight.n.positions) <= bound

\* C4 (as stated, the bound): the driver never holds more than
\* floor(max_time / dt) + 10 samples.
C4_OriginalBound ==
    op = "flight" =>
        SamplesWithin((flight.in.max_time \div flight.in.dt) + 10)

C4_AmendedBound ==
    (op = "flight" /\ flight.in.max_time >= 0) =>
        SamplesWithin((flight.in.max_time \div flight.in.dt) + 10)

\* C4 (amended): for dt > 0 every call of the driver returns, also when the
\* ball never reaches ground level, and for max_time >= 0 the samples it
\* holds, the initial sample and the appended landing sample included, never
\* exceed floor(max_time / dt) + 10.
C4_TerminatesWithinBound ==
    /\ []C4_AmendedBound
    /\ (op = "flight") ~> (op = "flight" /\ flight.call = "returned")

\* a call that ran out of time with the ball still above the ground
C4_Witness ==
    /\ op = "flight" /\ flight.call = "returned"
    /\ flight.in.max_time > 0
    /\ ~flight.w.contact /\ flight.w.steps >= 4
    /\ flight.w.current_time >= flight.in.max_time
    /\ Last(flight.w.positions)[3] > flight.in.ground_level

\* C8: called with wind [0, 0, 0] the wind-aware driver returns the same
\* positions, velocities and times as the no-wind driver, and step_rk4 equals
\* step_rk4_with_wind under a zero wind vector.
C8_ZeroWindEquivalence ==
    op = "flight" =>
        /\ flight.call = "with_wind" =>
              step_rk4(flight.w.state, flight.in.dt, flight.in)
                = step_rk4_with_wind(flight.w.state, flight.in.dt, ZeroWind,
                                     flight.in)
        /\ (flight.call = "returned" /\ flight.in.wind_velocity = ZeroWind) =>
              /\ flight.w.positions = flight.n.positions
              /\ flight.w.velocities = flight.n.velocities
              /\ flight.w.times = flight.n.times

\* both drivers returned a spinning ball's flight of several samples that
\* ended with an interpolated landing, under zero wind
C8_Witness ==
    /\ op = "flight" /\ flight.call = "returned"
    /\ flight.in.wind_velocity = ZeroWind
    /\ flight.in.spin_rpm > 0 /\ flight.in.initial_state[4] # 0
    /\ Len(flight.w.times) >= 5 /\ flight.w.interpolated
    /\ flight.n.interpolated

-----------------------------------------------------------------------------
(* Claims about the rolling ball and the interception search               *)

\* the stop time v0 / decel has passed at elapsed time t
AtOrAfterStop(gb, t) ==
    t > 0 /\ t * Decel(gb.friction) >= MphToFps(gb.landing_velocity_mph) * TimeDen

\* C9 (as stated): for a fixed ground ball the speed ball_position_at_time
\* returns does not increase as the elapsed time increases, is never
\* negative, and is exactly 0 at every elapsed time at or after the stop time
\* v0 / decel.
C9_RollingSpeed ==
    (op = "roll" /\ roll.n >= 1) =>
        /\ roll.vel >= 0
        /\ (roll.n >= 2 /\ roll.prev_time <= roll.time) => roll.vel <= roll.prev_vel
        /\ AtOrAfterStop(roll.gb, roll.time) => roll.vel = 0

\* the distance of position pos from the landing position of gb
RolledDistance(gb, pos) == Distance2(pos, gb.landing_position)

\* v0^2 / (2 * decel), in 1/10 ft
StopDistance(gb) ==
    RoundDiv(MphToFps(gb.landing_velocity_mph)
               * TimeToStop(MphToFps(gb.landing_velocity_mph), Decel(gb.friction)),
             2 * ((SpeedDen * TimeDen) \div FeetDen))

\* the rolled distance at the call's time is at least that of every earlier
\* time, less tol, and at most v0^2 / (2 * decel), plus tol; the position is
\* the same at all times at or after the stop time; at a time <= 0 the
\* landing position and speed are returned
RolledWithin(tol) ==
        /\ \A t \in RollTimes :
              t <= roll.time =>
                  RolledDistance(roll.gb, ball_position_at_time(roll.gb, t).pos)
                      <= RolledDistance(roll.gb, roll.pos) + tol
        /\ RolledDistance(roll.gb, roll.pos) <= StopDistance(roll.gb) + tol
        /\ AtOrAfterStop(roll.gb, roll.time) =>
              \A t \in RollTimes :
                  AtOrAfterStop(roll.gb, t) =>
                      ball_position_at_time(roll.gb, t).pos = roll.pos
        /\ roll.time <= 0 =>
              /\ roll.pos = roll.gb.landing_position
              /\ roll.vel = roll.gb.landing_velocity_mph

\* C20 (as stated): for a fixed ground ball the distance rolled from the
\* landing position does not decrease as the elapsed time increases and never
\* exceeds v0^2 / (2 * decel); at every elapsed time at or after the stop time
\* ball_position_at_time returns the same position; and at an elapsed time
\* <= 0 it returns the landing position and landing speed unchanged.
C20_Original == (op = "roll" /\ roll.n >= 1) => RolledWithin(0)

\* the rounding error allowed on a rolled distance, in 1/10 ft
RoundingTolerance == 2

\* C20 (amended): the same, the two comparisons of rolled distances holding
\* up to the rounding error of the arithmetic.
C20_RolledDistance ==
    (op = "roll" /\ roll.n >= 1) => RolledWithin(RoundingTolerance)

\* a call long after the stop time of a curving ball that rolled some distance
C20_Witness ==
    /\ op = "roll" /\ roll.n >= 2
    /\ roll.gb.spin_effect > 0 /\ roll.gb.landing_velocity_mph >= 35000
    /\ AtOrAfterStop(roll.gb, roll.time) /\ AtOrAfterStop(roll.gb, roll.prev_time)
    /\ roll.time # roll.prev_time
    /\ RolledDistance(roll.gb, roll.pos) > 100 * FeetDen

\* C1 (as stated): the outcome the interception search returns has
\* ball_time >= landing_time, also when the ball is below 0.1 mph at the
\* first sample.
C1_BallTimeNotBeforeLanding ==
    (op = "search" /\ search.pc = "returned") =>
        search.best.ball_time >= search.gb.landing_time

\* C10: every outcome of find_fielder_interception, the sentinel it starts
\* from and returns when no sample is evaluated included, has
\* margin = ball_time - fielder_time, and can_intercept only with margin >= 0.
C10_MarginIsBallMinusFielder ==
    (op = "search" /\ search.pc # "call") =>
        /\ search.best.margin = search.best.ball_time - search.best.fielder_time
        /\ search.best.can_intercept => search.best.margin >= 0
        /\ (search.evaluated > 0 /\ search.best.fielder_time < search.best.ball_time)
              => search.best.can_intercept

\* the search returned the sentinel: the ball was stopped at the first sample
C10_Witness ==
    /\ op = "search" /\ search.pc = "returned"
    /\ search.evaluated = 0
    /\ search.best = Sentinel
    /\ search.best.margin = F64_MIN

\* the outcome lines 549-581 form at the sample taken at offset t
SampleOutcome(q, t) ==
    Bind(ball_position_at_time(q.gb, t), LAMBDA ball :
        Candidate(ball, q.gb.landing_time + t,
                  fielder_travel_time(
                      Max(Distance2(ball.pos, q.fielder.pos) - q.charge_bonus, 0),
                      q.fielder.sprint_speed_fps, q.fielder.reaction_time,
                      FIELDER_ACCELERATION)))

\* the offsets of the samples a search evaluated
EvaluatedOffsets(q) == { k * TIME_STEP : k \in 0..(q.evaluated - 1) }

\* the outcome held is that of an evaluated sample, no evaluated sample has a
\* greater margin, and can_intercept holds exactly when that margin is >= 0
BestOfEvaluated ==
        /\ \E t \in EvaluatedOffsets(search) :
              search.best = SampleOutcome(search, t)
        /\ \A t \in EvaluatedOffsets(search) :
              SampleOutcome(search, t).margin <= search.best.margin
        /\ search.best.can_intercept <=> (search.best.margin >= 0)

HorizonSamples == MAX_TEST_TIME \div TIME_STEP + 1

\* the offsets tried are 0, 0.05, 0.10, ..., none beyond 6 s; the outcome
\* held, when it is a sample's, has ball_time <= landing_time + 6 s; and a
\* returned search evaluated no sample at or after one slower than 0.1 mph
SearchWithinHorizon ==
    /\ search.test_time = search.evaluated * TIME_STEP
    /\ search.evaluated <= HorizonSamples
    /\ \A t \in EvaluatedOffsets(search) : t <= MAX_TEST_TIME
    /\ search.best # Sentinel =>
          /\ search.best.ball_time <= search.gb.landing_time + MAX_TEST_TIME
          /\ search.best.ball_time - search.gb.landing_time
                \in EvaluatedOffsets(search)
    /\ search.pc = "returned" =>
          /\ \A t \in EvaluatedOffsets(search) :
                ball_position_at_time(search.gb, t).vel >= STOPPED_MPH
          /\ search.evaluated < HorizonSamples =>
                ball_position_at_time(search.gb, search.test_time).vel
                    < STOPPED_MPH

\* C19: the interception grid search always terminates; it evaluates the
\* ball at offsets 0, 0.05, 0.10, ... never beyond 6 s after landing (at
\* most 121 samples), stops at the first sample slower than 0.1 mph, and a
\* returned ball_time taken from a sample is at most landing_time + 6 s.
C19_SearchTerminates ==
    /\ []((op = "search" /\ search.pc \in {"loop", "returned"}) =>
            SearchWithinHorizon)
    /\ (op = "search") ~> (op = "search" /\ search.pc = "returned")

\* a search returned after the 121 samples of the whole horizon, the ball
\* still rolling 6 s after landing, with a sample after the first as its best
C19_Witness ==
    /\ op = "search" /\ search.pc = "returned"
    /\ search.evaluated = HorizonSamples
    /\ search.test_time = MAX_TEST_TIME + TIME_STEP
    /\ ball_position_at_time(search.gb, MAX_TEST_TIME).vel >= STOPPED_MPH
    /\ search.best.ball_time > search.gb.landing_time

-----------------------------------------------------------------------------
(* Claims about find_best_interception                                     *)

\* C12 (as stated): given at least one fielder, find_best_interception
\* returns an index in [0, n_fielders) of a fielder whose own margin is the
\* greatest among all fielders, together with exactly the outcome the
\* single-fielder search yields for that fielder, also for a ball already
\* stopped at landing.
C12_BestFielder ==
    (op = "team" /\ search.pc = "returned" /\ Len(search.team) >= 1) =>
        /\ search.best_idx \in 0..(Len(search.team) - 1)
        /\ \A j \in 1..Len(search.team) :
              FielderOutcome(search.gb, search.team[j],
                             search.exit_velocity_mph).margin
                <= search.best.margin
        /\ search.best = FielderOutcome(search.gb, search.team[search.best_idx + 1],
                                        search.exit_velocity_mph)

-----------------------------------------------------------------------------
(* Claims about the batch integration                                      *)

\* what integrating row i alone, sequentially, summarises to
SequentialSummary(b, i) ==
    BatchSummary(TrajectoryResult(
        DriverStart(BatchInput(b.p, b.states[i], b.spins[i])),
        BatchInput(b.p, b.states[i], b.spins[i])))

\* C13: when integrate_trajectories_batch returns, there is one output row
\* per input row and output row i is the summary (landing position, landing
\* time, distance, apex height) that integrating input row i alone gives,
\* whatever the order in which the workers finished; and no step of the call
\* changes the input rows, the shared parameters or the coefficient tables.
C13_BatchRowOrder ==
    /\ [](op = "batch" /\ flight.pc = "returned" =>
            /\ Len(flight.out) = Len(flight.states)
            /\ \A i \in 1..Len(flight.states) :
                  flight.out[i] = SequentialSummary(flight, i))
    /\ [][op = "batch" =>
            /\ flight'.p = flight.p
            /\ flight'.states = flight.states
            /\ flight'.spins = flight.spins]_vars

\* a batch of three rows with different summaries returned after its workers
\* finished in an order other than the input order
C13_Witness ==
    /\ op = "batch" /\ flight.pc = "returned"
    /\ Len(flight.states) = 3
    /\ flight.order = <<3, 1, 2>>
    /\ flight.out[1] # flight.out[2] /\ flight.out[2] # flight.out[3]
    /\ flight.out[1].n >= 5

\* a table with fewer than two rows or fewer than two columns
SmallerThan2x2(tbl) == tbl.rows < 2 \/ tbl.cols < 2

\* the call's arrays cannot be integrated: a table smaller than 2x2, or
\* different numbers of rows in initial_states and spin_params
BadBatch(b) ==
    \/ SmallerThan2x2(b.p.cd_table) \/ SmallerThan2x2(b.p.cl_table)
    \/ Len(b.states) # Len(b.spins)

\* C14: a batch call whose table is smaller than 2x2, or whose row counts
\* differ, ends in an error before any integration work: it never returns
\* results and no worker runs a trajectory (no sample, no RK4 step).
C14_ErrorBeforeIntegration ==
    (op = "batch" /\ BadBatch(flight)) =>
        /\ flight.pc # "returned"
        /\ flight.order = <<>>

-----------------------------------------------------------------------------
(* Claims about the bounce phase                                           *)

\* the direction has length 1 (to the grid's rounding) and points along
\* (vx, vy)
UnitAlong(direction, vx, vy) ==
    /\ Abs(Sqrt(direction[1] * direction[1] + direction[2] * direction[2])
             - UnitDen) <= 1
    /\ direction[1] * vx + direction[2] * vy >= 0
    /\ Abs(direction[1] * (vy \div 1000) - direction[2] * (vx \div 1000)) <= 50

\* C15: simulate_ground_ball returns, for every input, a direction of length
\* 1 aligned with (vx, vy), also when the horizontal launch speed is zero, a
\* non-negative landing speed, and the friction of the surface.
C15_UnitDirection ==
    (op = "bounce" /\ roll.pc = "returned") =>
        /\ UnitAlong(roll.result.direction, roll.in.vx_mph, roll.in.vy_mph)
        /\ roll.result.landing_velocity_mph >= 0
        /\ roll.result.friction = IF roll.in.is_grass THEN ROLLING_FRICTION_GRASS
                                                      ELSE ROLLING_FRICTION_DIRT
        /\ roll.result = simulate_ground_ball_initial(roll.in)

\* the same for launches with a horizontal speed above 1e-6 ft/s
C15_MovingBall ==
    (op = "bounce" /\ roll.pc = "returned"
        /\ (roll.in.vx_mph # 0 \/ roll.in.vy_mph # 0)) =>
        /\ UnitAlong(roll.result.direction, roll.in.vx_mph, roll.in.vy_mph)
        /\ roll.result.landing_velocity_mph >= 0
        /\ roll.result.friction = IF roll.in.is_grass THEN ROLLING_FRICTION_GRASS
                                                      ELSE ROLLING_FRICTION_DIRT

\* C17: the bounce phase runs at most 3 bounce iterations and runs one only
\* while |vz| is above 1 ft/s; every counted bounce multiplies the vertical
\* speed by the surface's restitution coefficient and the horizontal speed by
\* (1 - 0.1 * friction).
C17_BounceLosses ==
    /\ [](op = "bounce" => roll.b.bounces <= MAX_BOUNCES)
    /\ [][(op = "bounce" /\ roll'.b.bounces = roll.b.bounces + 1) =>
            /\ Abs(roll.b.vz) > MIN_BOUNCE_SPEED
            /\ Abs(roll'.b.vz) = RoundDiv(Abs(roll.b.vz) * roll.b.cor, 100)
            /\ roll'.b.vh = RoundDiv(roll.b.vh * (1000 - roll.b.friction), 1000)]_vars

-----------------------------------------------------------------------------
(* Claims about the driver's ground contact                                *)

\* the step from driver d to driver e ended at or below ground_level with a
\* negligible height change
NegligibleContact(d, e, in) ==
    /\ e.steps = d.steps + 1
    /\ e.state[3] <= in.ground_level
    /\ Abs(e.state[3] - d.state[3]) <= NEGLIGIBLE_DZ

\* C16: when a step of the airborne driver ends at or below ground_level with
\* a negligible height change, the raw post-step sample is kept as the last
\* sample, no interpolated sample is appended, and the loop is not left: the
\* integration goes on with further RK4 steps.
C16_NegligibleContinues ==
    [][(op = "flight" /\ flight.call = "with_wind"
          /\ NegligibleContact(flight.w, flight'.w, flight.in)) =>
            /\ Last(flight'.w.positions) = Pos(flight'.w.state)
            /\ ~flight'.w.interpolated
            /\ flight'.w.pc = "loop"]_vars

-----------------------------------------------------------------------------
(* Claims about the aerodynamic force                                      *)

RelativeVelocity(c) ==
    << c.velocity[1] - c.wind_velocity[1], c.velocity[2] - c.wind_velocity[2],
       c.velocity[3] - c.wind_velocity[3] >>

\* the length of the cross product of the unit relative velocity and the
\* unit spin axis of call c (both magnitudes above 1e-6)
CrossMagnitude(c) ==
    Norm3(Cross3(Unit3(RelativeVelocity(c), Norm3(RelativeVelocity(c))),
                 Unit3(c.spin_axis, Norm3(c.spin_axis))))

\* C18: aerodynamic_force_with_wind divides by no magnitude at or below the
\* 1e-6 threshold; at a relative speed below 1e-6 it returns the zero force
\* without consulting the tables; the Magnus term is zero unless spin_rpm > 1,
\* the spin axis is longer than 1e-6 and the cross product of the two unit
\* vectors is longer than 1e-6; and the force returned is the drag plus the
\* Magnus term, the drag opposing the relative velocity: no gravity in it.
C18_ForceGuards ==
    (op = "force" /\ lut.called) =>
        /\ \A k \in 1..Len(lut.res.divisors) : lut.res.divisors[k] > NEAR_ZERO
        /\ Norm3(RelativeVelocity(lut)) <= NEAR_ZERO =>
              lut.res.force = <<0, 0, 0>> /\ ~lut.res.looked_up
        /\ lut.res.magnus # <<0, 0, 0>> =>
              /\ lut.spin_rpm > 1
              /\ Norm3(lut.spin_axis) > NEAR_ZERO
              /\ CrossMagnitude(lut) > NEAR_ZERO
        /\ \A i \in 1..3 :
              /\ lut.res.force[i] = lut.res.drag[i] + lut.res.magnus[i]
              /\ lut.res.drag[i] * RelativeVelocity(lut)[i] <= 0
              /\ RelativeVelocity(lut)[i] = 0 => lut.res.drag[i] = 0

\* a spinning ball moving with the wind: the call returned the zero force
\* without a lookup; and (C18_MagnusWitness) a call with a Magnus term
C18_Witness ==
    /\ op = "force" /\ lut.called
    /\ lut.velocity # <<0, 0, 0>> /\ lut.velocity = lut.wind_velocity
    /\ lut.spin_rpm > 1 /\ lut.spin_axis # <<0, 0, 0>>
    /\ lut.res.force = <<0, 0, 0>> /\ ~lut.res.looked_up
    /\ lut.res.divisors = <<>>

-----------------------------------------------------------------------------
(* Claims about the charge bonus                                           *)

\* C21: for a fixed sprint speed the charge bonus does not increase when the
\* distance to the landing point increases at the same exit velocity (closer
\* fielders get at least as much), does not increase when the exit velocity
\* increases at the same distance, and never exceeds CHARGE_BONUS_MAX.
C21_ChargeBonus ==
    (op = "charge" /\ shear.n >= 1) =>
        /\ shear.bonus <= CHARGE_BONUS_MAX
        /\ (shear.n >= 2
              /\ shear.prev_exit_velocity_mph = shear.exit_velocity_mph
              /\ shear.prev_distance_to_landing <= shear.distance_to_landing)
             => shear.bonus <= shear.prev_bonus
        /\ (shear.n >= 2
              /\ shear.prev_distance_to_landing = shear.distance_to_landing
              /\ shear.prev_exit_velocity_mph <= shear.exit_velocity_mph)
             => shear.bonus <= shear.prev_bonus

\* C22: the reflection branch (vz <= 0) is taken only in the first bounce
\* iteration; it replaces vz by -vz * COR, counts as one of the 3 bounces and
\* leaves position, elapsed time and horizontal speed unchanged, so a ball
\* launched downward makes at most 2 airborne hops; and always the landing
\* time is >= 0 and the landing speed is at most the initial horizontal speed.
C22_ReflectionFrame ==
    /\ [](op = "bounce" =>
            /\ roll.b.time >= 0
            /\ roll.b.vh <= BounceStart(roll.in).vh
            /\ roll.in.vz_mph < 0 => roll.b.hops <= MAX_BOUNCES - 1
            /\ roll.pc = "returned" =>
                  /\ roll.result.landing_time >= 0
                  /\ roll.result.landing_velocity_mph
                        <= FpsToMph(BounceStart(roll.in).vh))
    /\ [][(op = "bounce" /\ roll'.b.bounces = roll.b.bounces + 1
              /\ roll.b.vz <= 0) =>
            /\ roll.b.bounces = 0
            /\ roll'.b.vz = RoundDiv((-roll.b.vz) * roll.b.cor, 100)
            /\ roll'.b.pos = roll.b.pos
            /\ roll'.b.time = roll.b.time
            /\ roll'.b.vh = roll.b.vh
            /\ roll'.b.hops = roll.b.hops]_vars

\* a moving ball launched downward returned after its reflection and two hops
C22_Witness ==
    /\ op = "bounce" /\ roll.pc = "returned"
    /\ roll.in.vz_mph < 0
    /\ roll.b.bounces = MAX_BOUNCES /\ roll.b.hops = MAX_BOUNCES - 1
    /\ roll.result.landing_time > 0
    /\ roll.result.landing_velocity_mph > 0
    /\ roll.result.landing_position # <<roll.in.x0, roll.in.y0>>

\* v lies between a and b, in either order
LiesBetween(v, a, b) == (a <= v /\ v <= b) \/ (b <= v /\ v <= a)

\* the interpolated landing sample of driver d lies between the sample before
\* the last step and the post-step sample, in time and in x, y
LandingWithinStep(d) ==
    d.interpolated =>
        /\ 0 <= d.fraction /\ d.fraction <= FracDen
        /\ LiesBetween(d.times[Len(d.times)],
                       d.times[Len(d.times) - 2], d.times[Len(d.times) - 1])
        /\ \A c \in 1..2 :
              LiesBetween(d.positions[Len(d.positions)][c],
                          d.positions[Len(d.positions) - 2][c],
                          d.positions[Len(d.positions) - 1][c])

\* C23 (as stated): whenever the driver appends an interpolated landing
\* sample, the interpolation fraction lies in [0, 1], so the landing time and
\* the landing x, y lie between those of the previous sample and of the
\* post-step sample, for every initial state, one at or below ground_level
\* included.
C23_FractionInUnitInterval ==
    op = "flight" => LandingWithinStep(flight.w) /\ LandingWithinStep(flight.n)

\* the outcome a returned search holds is the evaluated sample of greatest
\* margin with the smallest offset
EarliestBestSample(q) ==
    Bind(q.best.ball_time - q.gb.landing_time, LAMBDA offset :
        /\ offset \in EvaluatedOffsets(q)
        /\ q.best = SampleOutcome(q, offset)
        /\ \A t \in EvaluatedOffsets(q) :
              /\ SampleOutcome(q, t).margin <= q.best.margin
              /\ t < offset => SampleOutcome(q, t).margin < q.best.margin)

\* the margin the search of fielder j of the team yields
FielderMargin(q, j) ==
    FielderOutcome(q.gb, q.team[j], q.exit_velocity_mph).margin

\* the index returned is the lowest among the fielders of greatest margin
LowestBestFielder(q) ==
    /\ q.best_idx \in 0..(Len(q.team) - 1)
    /\ \A j \in 1..Len(q.team) :
          /\ FielderMargin(q, j) <= FielderMargin(q, q.best_idx + 1)
          /\ j < q.best_idx + 1 =>
                FielderMargin(q, j) < FielderMargin(q, q.best_idx + 1)

\* C24 (as stated): ties are broken towards the earliest candidate: among
\* samples of equal maximal margin find_fielder_interception returns the one
\* of smallest time offset; among fielders of equal maximal margin
\* find_best_interception returns the one of lowest input index, whatever the
\* order in which the parallel searches complete; with zero fielders it
\* returns index -1 and can_intercept = FALSE.
C24_EarliestCandidate ==
    /\ (op = "search" /\ search.pc = "returned" /\ search.evaluated > 0)
          => EarliestBestSample(search)
    /\ (op = "team" /\ search.pc = "returned") =>
          IF Len(search.team) = 0
          THEN search.best_idx = -1 /\ ~search.best.can_intercept
          ELSE LowestBestFielder(search)

====
